---- MODULE Spec2Model ----
(***************************************************************************)
(* A model of src/mcp_search_linkup/server.py: the MCP server that exposes *)
(* the Linkup web search as the tool "search-web" over an SSE transport.   *)
(*                                                                         *)
(* The process runs one asyncio event loop.  Every handler is a coroutine  *)
(* of that loop, so a handler runs without interleaving from its start to  *)
(* its next `await`.  handle_call_tool holds no `await`: the provider call *)
(* client.search(...) is a plain synchronous call, and the event loop      *)
(* thread stays inside it until it returns or raises.  The variable `loop` *)
(* records which session's handler occupies the thread that way.           *)
(***************************************************************************)
EXTENDS Naturals, Sequences, FiniteSets, TLC

\* Bound of the model: the largest number of hits the provider returns.
MaxHits == 2

\* logging.INFO, the threshold set at import time.
INFO == 20

Sessions == {"s1", "s2"}

(***************************************************************************)
(* Python values carried in the arguments mapping.                         *)
(***************************************************************************)
StrV(s) == [ty |-> "str", v |-> s]
IntV(s) == [ty |-> "int", v |-> s]
NoneV == [ty |-> "NoneType", v |-> "None"]

\* bool(x) of a Python value: None, "" and 0 are false.
Truthy(x) ==
    ~ \/ x.ty = "NoneType"
      \/ (x.ty = "str" /\ x.v = "")
      \/ (x.ty = "int" /\ x.v = "0")

EmptyDict == [k \in {} |-> NoneV]

\* dict.get(k): the value, or None when the key is absent.
Get(d, k) == IF k \in DOMAIN d THEN d[k] ELSE NoneV

(***************************************************************************)
(* The requests a client may post.                                         *)
(***************************************************************************)
ToolNames == {"search-web", "unknown-tool"}
QueryValues == {StrV(""), StrV("q1"), StrV("q2")}
DepthValues == {StrV(""), IntV("0"), StrV("standard"), StrV("shallow")}

QueryPart == {EmptyDict} \cup {("query" :> v) : v \in QueryValues}
DepthPart == {EmptyDict} \cup {("depth" :> v) : v \in DepthValues}
ArgDicts == {q @@ d : q \in QueryPart, d \in DepthPart}

\* types.LoggingLevel of the protocol.
LoggingLevels ==
    {"debug", "info", "notice", "warning", "error", "critical", "alert", "emergency"}

NoReq == [kind |-> "none", name |-> "", hasArgs |-> FALSE, arguments |-> EmptyDict, level |-> ""]
ListReq == [NoReq EXCEPT !.kind = "list"]
CallReq(name, hasArgs, arguments) ==
    [NoReq EXCEPT !.kind = "call", !.name = name, !.hasArgs = hasArgs, !.arguments = arguments]
SetLevelReq(level) == [NoReq EXCEPT !.kind = "setlevel", !.level = level]

Requests ==
    {ListReq}
    \cup {CallReq(n, FALSE, EmptyDict) : n \in ToolNames}
    \cup {CallReq(n, TRUE, a) : n \in ToolNames, a \in ArgDicts}
    \cup {SetLevelReq(l) : l \in LoggingLevels}

(***************************************************************************)
(* The responses a session receives.                                       *)
(***************************************************************************)
NoResp == [kind |-> "none", tools |-> <<>>, content |-> <<>>, message |-> ""]
ToolsResult(tools) == [NoResp EXCEPT !.kind = "tools", !.tools = tools]
ContentResult(content) == [NoResp EXCEPT !.kind = "content", !.content = content]
ErrorResult(message) == [NoResp EXCEPT !.kind = "error", !.message = message]
EmptyResult == [NoResp EXCEPT !.kind = "empty"]

VARIABLES
    session,        \* session[s]: the lifecycle state of the connection s
    phase,          \* phase[s]: where the request of s stands
    req,            \* req[s]: the request of s being served, or served last
    resp,           \* resp[s]: the response to req[s]
    logMsgs,        \* logMsgs[s]: log messages sent to s while serving req[s]
    searchCalls,    \* searchCalls[s]: the provider calls made while serving req[s]
    searchResponse, \* searchResponse[s]: what the provider answered for req[s]
    logLevel,       \* the threshold of the logger "mcp-search-linkup"
    loop            \* "idle", or the session whose handler blocks the event loop

vars == <<session, phase, req, resp, logMsgs, searchCalls, searchResponse, logLevel, loop>>

NoResponse == [status |-> "none", results |-> <<>>]

Init ==
    /\ session = [s \in Sessions |-> "Closed"]
    /\ phase = [s \in Sessions |-> "idle"]
    /\ req = [s \in Sessions |-> NoReq]
    /\ resp = [s \in Sessions |-> NoResp]
    /\ logMsgs = [s \in Sessions |-> <<>>]
    /\ searchCalls = [s \in Sessions |-> <<>>]
    /\ searchResponse = [s \in Sessions |-> NoResponse]
    /\ logLevel = INFO
    /\ loop = "idle"

(***************************************************************************)
(* handle_sse and the /messages/ mount.                                    *)
(***************************************************************************)
\* GET /sse: connect_sse opens the streams of a new connection.
Connect(s) ==
    /\ loop = "idle"
    /\ session[s] = "Closed"
    /\ session' = [session EXCEPT ![s] = "Connecting"]
    /\ UNCHANGED <<phase, req, resp, logMsgs, searchCalls, searchResponse, logLevel, loop>>

\* mcp_server.run starts the session loop on the streams.
RunSession(s) ==
    /\ loop = "idle"
    /\ session[s] = "Connecting"
    /\ session' = [session EXCEPT ![s] = "Initializing"]
    /\ UNCHANGED <<phase, req, resp, logMsgs, searchCalls, searchResponse, logLevel, loop>>

\* The handshake of the session completes.
Initialized(s) ==
    /\ loop = "idle"
    /\ session[s] = "Initializing"
    /\ session' = [session EXCEPT ![s] = "Active"]
    /\ UNCHANGED <<phase, req, resp, logMsgs, searchCalls, searchResponse, logLevel, loop>>

\* The connection closes: mcp_server.run returns and handle_sse answers Response().
Disconnect(s) ==
    /\ loop = "idle"
    /\ session[s] # "Closed"
    /\ session' = [session EXCEPT ![s] = "Closed"]
    /\ phase' = [phase EXCEPT ![s] = "idle"]
    /\ req' = [req EXCEPT ![s] = NoReq]
    /\ resp' = [resp EXCEPT ![s] = NoResp]
    /\ logMsgs' = [logMsgs EXCEPT ![s] = <<>>]
    /\ searchCalls' = [searchCalls EXCEPT ![s] = <<>>]
    /\ searchResponse' = [searchResponse EXCEPT ![s] = NoResponse]
    /\ UNCHANGED <<logLevel, loop>>

\* POST /messages/: sse.handle_post_message routes a request into the session.
PostMessage(s, r) ==
    /\ loop = "idle"
    /\ session[s] = "Active"
    /\ phase[s] \in {"idle", "done"}
    /\ phase' = [phase EXCEPT ![s] = "pending"]
    /\ req' = [req EXCEPT ![s] = r]
    /\ resp' = [resp EXCEPT ![s] = NoResp]
    /\ logMsgs' = [logMsgs EXCEPT ![s] = <<>>]
    /\ searchCalls' = [searchCalls EXCEPT ![s] = <<>>]
    /\ searchResponse' = [searchResponse EXCEPT ![s] = NoResponse]
    /\ UNCHANGED <<session, logLevel, loop>>

\* A handler of s can start: its request is pending and the event loop is free.
CanHandle(s, kind) ==
    /\ loop = "idle"
    /\ session[s] = "Active"
    /\ phase[s] = "pending"
    /\ req[s].kind = kind

\* An exception leaves the handler; the session layer answers s with an error.
Raise(s, message) ==
    /\ phase' = [phase EXCEPT ![s] = "done"]
    /\ resp' = [resp EXCEPT ![s] = ErrorResult(message)]
    /\ loop' = "idle"

(***************************************************************************)
(* handle_list_tools                                                       *)
(***************************************************************************)
SearchWebTool ==
    [ name |-> "search-web",
      inputSchema |->
        [ type |-> "object",
          properties |->
            [ query |-> [type |-> "string", enum |-> {}],
              depth |-> [type |-> "string", enum |-> {"standard", "deep"}] ],
          required |-> <<"query", "depth">> ] ]

\* A catalog that forgets to require depth.
handle_list_tools_query_only ==
    <<[SearchWebTool EXCEPT !.inputSchema.required = <<"query">>]>>

handle_list_tools == <<SearchWebTool>>

HandleListTools(s) ==
    /\ CanHandle(s, "list")
    /\ phase' = [phase EXCEPT ![s] = "done"]
    /\ resp' = [resp EXCEPT ![s] = ToolsResult(handle_list_tools)]
    /\ UNCHANGED <<session, req, logMsgs, searchCalls, searchResponse, logLevel, loop>>

(***************************************************************************)
(* handle_call_tool                                                        *)
(***************************************************************************)
\* Validation without the depth check.
ValidationErrorNoDepthCheck(name, hasArgs, arguments) ==
    IF name # "search-web" THEN "Unknown tool: " \o name
    ELSE IF ~hasArgs \/ DOMAIN arguments = {} THEN "Missing arguments"
    ELSE IF ~Truthy(Get(arguments, "query")) THEN "Missing query"
    ELSE ""

\* Validation that looks at depth before query.
ValidationErrorDepthFirst(name, hasArgs, arguments) ==
    IF name # "search-web" THEN "Unknown tool: " \o name
    ELSE IF ~hasArgs \/ DOMAIN arguments = {} THEN "Missing arguments"
    ELSE IF ~Truthy(Get(arguments, "depth")) THEN "Missing depth"
    ELSE IF ~Truthy(Get(arguments, "query")) THEN "Missing query"
    ELSE ""

\* Validation that also enforces the enum the schema advertises for depth.
ValidationErrorEnumChecked(name, hasArgs, arguments) ==
    IF name # "search-web" THEN "Unknown tool: " \o name
    ELSE IF ~hasArgs \/ DOMAIN arguments = {} THEN "Missing arguments"
    ELSE IF ~Truthy(Get(arguments, "query")) THEN "Missing query"
    ELSE IF ~Truthy(Get(arguments, "depth")) THEN "Missing depth"
    ELSE IF Get(arguments, "depth") \notin {StrV("standard"), StrV("deep")} THEN "Invalid depth"
    ELSE ""

\* The ValueError the validation raises, or "" when the request passes it.
ValidationError(name, hasArgs, arguments) ==
    IF name # "search-web" THEN "Unknown tool: " \o name
    ELSE IF ~hasArgs \/ DOMAIN arguments = {} THEN "Missing arguments"
    ELSE IF ~Truthy(Get(arguments, "query")) THEN "Missing query"
    ELSE IF ~Truthy(Get(arguments, "depth")) THEN "Missing depth"
    ELSE ""

\* The keyword arguments of client.search(...).
SearchCall(arguments) ==
    [ query |-> Get(arguments, "query"),
      depth |-> Get(arguments, "depth"),
      output_type |-> "searchResults" ]

\* The provider, a black box: some non-empty list of hits about the query.
ResultsFor(call) ==
    { [ status |-> "ok",
        results |-> [i \in 1..n |-> [type |-> "text", name |-> call.query.v, rank |-> i]] ]
      : n \in 1..MaxHits }

SearchFailed == [status |-> "error", results |-> <<>>]

\* str(search_response): the canonical form of the result object, hit by hit.
ItemStr(x) ==
    "SearchResult(type='" \o x.type \o "', name='" \o x.name \o "', rank=" \o ToString(x.rank) \o ")"

RECURSIVE JoinItems(_)
JoinItems(items) ==
    IF items = <<>> THEN ""
    ELSE IF Len(items) = 1 THEN ItemStr(Head(items))
    ELSE ItemStr(Head(items)) \o ", " \o JoinItems(Tail(items))

Str(R) == "results=[" \o JoinItems(R.results) \o "]"

\* A text cut after the first hit.
TextContentsTruncated(R) ==
    <<[type |-> "text", text |-> Str([R EXCEPT !.results = SubSeq(@, 1, 1)])]>>

\* The list handle_call_tool returns.
TextContents(R) == <<[type |-> "text", text |-> Str(R)]>>

\* A response kept in one module-level variable: an answer another session
\* already holds is served again.
last_search_response(s) ==
    IF \E t \in Sessions \ {s} : searchResponse[t].status = "ok"
    THEN searchResponse[CHOOSE t \in Sessions \ {s} : searchResponse[t].status = "ok"]
    ELSE searchResponse'[s]

\* The local variable search_response of the invocation serving s, once assigned.
search_response(s) == searchResponse'[s]

\* Lines 68-85: validation, then the handler enters client.search(...), which
\* holds the event loop thread until the provider answers.
HandleCallTool(s) ==
    /\ CanHandle(s, "call")
    /\ LET err == ValidationError(req[s].name, req[s].hasArgs, req[s].arguments) IN
        IF err # ""
        THEN /\ Raise(s, err)
             /\ UNCHANGED searchCalls
        ELSE /\ searchCalls' = [searchCalls EXCEPT ![s] = Append(@, SearchCall(req[s].arguments))]
             /\ phase' = [phase EXCEPT ![s] = "search"]
             /\ loop' = s
             /\ UNCHANGED resp
    /\ UNCHANGED <<session, req, logMsgs, searchResponse, logLevel>>

\* Lines 81-92: client.search returns R and the handler returns its text.
SearchReturns(s, R) ==
    /\ phase[s] = "search"
    /\ loop = s
    /\ R \in ResultsFor(searchCalls[s][Len(searchCalls[s])])
    /\ searchResponse' = [searchResponse EXCEPT ![s] = R]
    /\ resp' = [resp EXCEPT ![s] = ContentResult(TextContents(search_response(s)))]
    /\ phase' = [phase EXCEPT ![s] = "done"]
    /\ loop' = "idle"
    /\ UNCHANGED <<session, req, logMsgs, searchCalls, logLevel>>

\* The error caught and an empty content list returned in its place.
ProviderErrorSwallowed(s) ==
    /\ phase' = [phase EXCEPT ![s] = "done"]
    /\ resp' = [resp EXCEPT ![s] = ContentResult(<<>>)]
    /\ loop' = "idle"
    /\ UNCHANGED searchCalls

\* The error caught and the search tried once more.
ProviderErrorRetried(s) ==
    IF Len(searchCalls[s]) < 2
    THEN /\ searchCalls' = [searchCalls EXCEPT ![s] = Append(@, SearchCall(req[s].arguments))]
         /\ UNCHANGED <<phase, resp, loop>>
    ELSE /\ Raise(s, "ProviderError")
         /\ UNCHANGED searchCalls

\* client.search raised: nothing catches it in handle_call_tool.
ProviderErrorPropagates(s) ==
    /\ Raise(s, "ProviderError")
    /\ UNCHANGED searchCalls

SearchRaises(s) ==
    /\ phase[s] = "search"
    /\ loop = s
    /\ searchResponse' = [searchResponse EXCEPT ![s] = SearchFailed]
    /\ ProviderErrorPropagates(s)
    /\ UNCHANGED <<session, req, logMsgs, logLevel>>

(***************************************************************************)
(* set_logging_level                                                       *)
(***************************************************************************)
\* str.upper() on the level names of the protocol.
Upper ==
    ("debug" :> "DEBUG") @@ ("info" :> "INFO") @@ ("notice" :> "NOTICE")
    @@ ("warning" :> "WARNING") @@ ("error" :> "ERROR") @@ ("critical" :> "CRITICAL")
    @@ ("alert" :> "ALERT") @@ ("emergency" :> "EMERGENCY")

\* The level names logging.Logger.setLevel accepts, with their numbers.
nameToLevel ==
    [ CRITICAL |-> 50, FATAL |-> 50, ERROR |-> 40, WARN |-> 30, WARNING |-> 30,
      INFO |-> 20, DEBUG |-> 10, NOTSET |-> 0 ]

LogLevelSetMessage(level) ==
    [level |-> "info", data |-> "Log level set to " \o level, logger |-> "mcp-search-linkup"]

\* Line 25: logger.setLevel(level.upper()) raises ValueError on a name it does
\* not know; otherwise the handler goes on to await send_log_message.
HandleSetLoggingLevel(s) ==
    /\ CanHandle(s, "setlevel")
    /\ LET name == Upper[req[s].level] IN
        IF name \in DOMAIN nameToLevel
        THEN /\ logLevel' = nameToLevel[name]
             /\ phase' = [phase EXCEPT ![s] = "sending"]
             /\ UNCHANGED <<resp, loop>>
        ELSE /\ Raise(s, "Unknown level: '" \o name \o "'")
             /\ UNCHANGED logLevel
    /\ UNCHANGED <<session, req, logMsgs, searchCalls, searchResponse>>

\* Lines 26-31: the log message is sent to the session and EmptyResult returned.
SendLogMessage(s) ==
    /\ loop = "idle"
    /\ session[s] = "Active"
    /\ phase[s] = "sending"
    /\ logMsgs' = [logMsgs EXCEPT ![s] = Append(@, LogLevelSetMessage(req[s].level))]
    /\ resp' = [resp EXCEPT ![s] = EmptyResult]
    /\ phase' = [phase EXCEPT ![s] = "done"]
    /\ UNCHANGED <<session, req, searchCalls, searchResponse, logLevel, loop>>

\* logger.isEnabledFor(levelno): a record below the threshold is suppressed.
Suppressed(levelno) == levelno < logLevel

(***************************************************************************)
(* The specification.                                                      *)
(***************************************************************************)
Next ==
    \E s \in Sessions :
        \/ Connect(s)
        \/ RunSession(s)
        \/ Initialized(s)
        \/ Disconnect(s)
        \/ \E r \in Requests : PostMessage(s, r)
        \/ HandleListTools(s)
        \/ HandleCallTool(s)
        \/ \E R \in ResultsFor(SearchCall(req[s].arguments)) : SearchReturns(s, R)
        \/ SearchRaises(s)
        \/ HandleSetLoggingLevel(s)
        \/ SendLogMessage(s)

Spec == Init /\ [][Next]_vars

(***************************************************************************)
(* Properties.                                                             *)
(***************************************************************************)
Other(s) == Sessions \ {s}

\* The request r is a tool call that one of the four validation checks rejects.
FailsValidation(r) ==
    /\ r.kind = "call"
    /\ \/ r.name # "search-web"
       \/ ~r.hasArgs
       \/ r.arguments = EmptyDict
       \/ ~Truthy(Get(r.arguments, "query"))
       \/ ~Truthy(Get(r.arguments, "depth"))

PassesValidation(r) == r.kind = "call" /\ ~FailsValidation(r)

\* C1: a tool call that fails validation never reaches the provider and has no
\* other side effect: no provider call is made for it, no log message is sent,
\* and the step that rejects it changes nothing but the answer to its session.
C1_RejectStep(s) ==
    /\ FailsValidation(req[s])
    /\ phase[s] = "pending"
    /\ phase'[s] = "done"

C1_RejectedBeforeProvider ==
    /\ [](\A s \in Sessions :
            FailsValidation(req[s]) =>
                /\ searchCalls[s] = <<>>
                /\ searchResponse[s] = NoResponse
                /\ logMsgs[s] = <<>>
                /\ phase[s] # "search"
                /\ loop # s
                /\ (phase[s] = "done" => resp[s].kind = "error"))
    /\ [][\A s \in Sessions :
            C1_RejectStep(s) =>
                /\ UNCHANGED <<session, req, logMsgs, searchCalls, searchResponse, logLevel, loop>>
                /\ \A t \in Other(s) : phase'[t] = phase[t] /\ resp'[t] = resp[t]]_vars

C1_Witness ==
    \E s \in Sessions :
        /\ phase[s] = "done"
        /\ req[s] = CallReq("search-web", TRUE, ("query" :> StrV("q1")))
        /\ resp[s] = ErrorResult("Missing depth")
        /\ searchCalls[s] = <<>>

\* C2: the checks apply in the order name, arguments, query, depth, and the
\* first failing check alone determines the error.
C2_ValidationOrder ==
    \A s \in Sessions :
        (phase[s] = "done" /\ req[s].kind = "call") =>
            LET r == req[s]
                named == r.name = "search-web"
                given == r.hasArgs /\ r.arguments # EmptyDict
                query == Truthy(Get(r.arguments, "query"))
                depth == Truthy(Get(r.arguments, "depth"))
            IN  /\ ~named => resp[s] = ErrorResult("Unknown tool: " \o r.name)
                /\ (named /\ ~given) => resp[s] = ErrorResult("Missing arguments")
                /\ (named /\ given /\ ~query) => resp[s] = ErrorResult("Missing query")
                /\ (named /\ given /\ query /\ ~depth) => resp[s] = ErrorResult("Missing depth")

C2_Witness ==
    \E s \in Sessions :
        /\ phase[s] = "done"
        /\ req[s] = CallReq("search-web", TRUE, ("query" :> StrV("")))
        /\ resp[s] = ErrorResult("Missing query")

\* C3: a validated call whose provider call returned R is answered with exactly
\* one content item, of kind "text", whose text is the string form of R.
C3_SingleTextOfResult ==
    \A s \in Sessions :
        (phase[s] = "done" /\ searchResponse[s].status = "ok") =>
            /\ PassesValidation(req[s])
            /\ resp[s].kind = "content"
            /\ Len(resp[s].content) = 1
            /\ resp[s].content[1].type = "text"
            /\ resp[s].content[1].text = Str(searchResponse[s])

C3_Witness ==
    \E s \in Sessions :
        /\ phase[s] = "done"
        /\ req[s] = CallReq("search-web", TRUE, ("query" :> StrV("q1")) @@ ("depth" :> StrV("standard")))
        /\ searchResponse[s].status = "ok"
        /\ Len(searchResponse[s].results) = MaxHits
        /\ resp[s].kind = "content"

\* The texts the provider's results for the query of request r print as.
TextsFor(r) == {Str(R) : R \in ResultsFor(SearchCall(r.arguments))}

\* C4: of two sessions that call the tool with different queries, each receives
\* the result produced for its own query, never the one produced for the other's.
C4_OwnResultOnly ==
    \A s \in Sessions :
        (phase[s] = "done" /\ resp[s].kind = "content") =>
            /\ Len(resp[s].content) = 1
            /\ resp[s].content[1].text \in TextsFor(req[s])
            /\ \A t \in Other(s) :
                (PassesValidation(req[t]) /\ req[t].arguments["query"] # req[s].arguments["query"]) =>
                    resp[s].content[1].text \notin TextsFor(req[t])

C4_Witness ==
    \E s \in Sessions : \E t \in Other(s) :
        /\ phase[s] = "done" /\ resp[s].kind = "content"
        /\ phase[t] = "done" /\ resp[t].kind = "content"
        /\ req[s].arguments["query"] # req[t].arguments["query"]

\* The numbers of the levels of the logging module.
LevelNumbers == {nameToLevel[n] : n \in DOMAIN nameToLevel}

\* C5: for every level of the protocol the logging-level handler sets the
\* threshold of the process to that level, so that records below it are
\* suppressed, sends exactly one informational log message to the requesting
\* session and returns an empty acknowledgment.
C5_Starts(s) ==
    /\ req[s].kind = "setlevel"
    /\ phase[s] = "pending"
    /\ phase'[s] \in {"sending", "done"}

C5_Ends(s) ==
    /\ req[s].kind = "setlevel"
    /\ phase[s] \in {"pending", "sending"}
    /\ phase'[s] = "done"

C5_EveryLevelSetAndAcknowledged ==
    [][\A s \in Sessions :
        /\ C5_Starts(s) =>
            /\ Upper[req[s].level] \in DOMAIN nameToLevel
            /\ logLevel' = nameToLevel[Upper[req[s].level]]
            /\ \A n \in LevelNumbers : n < nameToLevel[Upper[req[s].level]] => Suppressed(n)'
        /\ C5_Ends(s) =>
            /\ resp'[s] = EmptyResult
            /\ logMsgs'[s] = <<LogLevelSetMessage(req[s].level)>>]_vars

\* The tool call of s has failed: rejected by validation, or the provider raised.
CallFailed(s) ==
    /\ phase[s] = "done"
    /\ req[s].kind = "call"
    /\ FailsValidation(req[s]) \/ searchResponse[s].status = "error"

\* C6: a failed tool call is answered with an error in the same cycle, and the
\* server keeps serving: the failed handler does not hold the event loop, its
\* session stays open, and whenever the loop is free a new session can be
\* opened and list-tools and call-tool requests are accepted and handled.
C6_FailureAnsweredServerServes ==
    \A s \in Sessions :
        CallFailed(s) =>
            /\ resp[s].kind = "error"
            /\ resp[s].content = <<>>
            /\ session[s] = "Active"
            /\ loop # s
            /\ loop = "idle" =>
                \A t \in Sessions :
                    /\ session[t] = "Closed" => ENABLED Connect(t)
                    /\ session[t] = "Connecting" => ENABLED RunSession(t)
                    /\ session[t] = "Initializing" => ENABLED Initialized(t)
                    /\ (session[t] = "Active" /\ phase[t] \in {"idle", "done"}) =>
                        /\ ENABLED PostMessage(t, ListReq)
                        /\ ENABLED PostMessage(t, req[s])
                    /\ (session[t] = "Active" /\ phase[t] = "pending" /\ req[t].kind = "list") =>
                        ENABLED HandleListTools(t)
                    /\ (session[t] = "Active" /\ phase[t] = "pending" /\ req[t].kind = "call") =>
                        ENABLED HandleCallTool(t)

C6_Witness ==
    \E s \in Sessions : \E t \in Other(s) :
        /\ CallFailed(s)
        /\ searchResponse[s].status = "error"
        /\ resp[s] = ErrorResult("ProviderError")
        /\ session[t] = "Closed"
        /\ loop = "idle"

\* The set of the elements of a sequence.
Range(seq) == {seq[i] : i \in 1..Len(seq)}

\* C7: listTools always answers the same one descriptor, "search-web", requiring
\* exactly query and depth, with the enum {"standard", "deep"} on depth, whatever
\* happened before; and the step that serves it changes nothing else.
C7_ListStep(s) ==
    /\ req[s].kind = "list"
    /\ phase[s] = "pending"
    /\ phase'[s] = "done"

C7_CatalogConstantAndPure ==
    /\ [](\A s \in Sessions :
            (phase[s] = "done" /\ req[s].kind = "list") =>
                /\ resp[s].kind = "tools"
                /\ Len(resp[s].tools) = 1
                /\ resp[s].tools[1].name = "search-web"
                /\ Range(resp[s].tools[1].inputSchema.required) = {"query", "depth"}
                /\ resp[s].tools[1].inputSchema.properties.depth.enum = {"standard", "deep"}
                /\ \A t \in Other(s) :
                    (phase[t] = "done" /\ req[t].kind = "list") => resp[t] = resp[s])
    /\ [][\A s \in Sessions :
            C7_ListStep(s) =>
                /\ UNCHANGED <<session, req, logMsgs, searchCalls, searchResponse, logLevel, loop>>
                /\ \A t \in Other(s) : phase'[t] = phase[t] /\ resp'[t] = resp[t]]_vars

C7_Witness ==
    \E s \in Sessions : \E t \in Other(s) :
        /\ phase[s] = "done" /\ req[s].kind = "list" /\ resp[s].kind = "tools"
        /\ phase[t] = "done" /\ req[t].kind = "call" /\ resp[t].kind = "content"
        /\ logLevel # INFO

\* C8: while the callTool of one session waits for the provider, a pending
\* request of any other active session can be handled.
C8_OthersServedDuringSearch ==
    \A s \in Sessions :
        phase[s] = "search" =>
            \A t \in Other(s) :
                (session[t] = "Active" /\ phase[t] = "pending") =>
                    /\ req[t].kind = "list" => ENABLED HandleListTools(t)
                    /\ req[t].kind = "call" => ENABLED HandleCallTool(t)
                    /\ req[t].kind = "setlevel" => ENABLED HandleSetLoggingLevel(t)

\* C9: a validated call invokes the provider exactly once; when that call
\* fails the failure is the outcome: no second call, no content item, and every
\* content returned comes from the one provider call of its own invocation.
C9_OneCallNoRetryNoCache ==
    \A s \in Sessions :
        /\ (PassesValidation(req[s]) /\ phase[s] \in {"search", "done"}) =>
            Len(searchCalls[s]) = 1
        /\ searchResponse[s].status = "error" =>
            /\ phase[s] = "done"
            /\ Len(searchCalls[s]) = 1
            /\ resp[s].kind = "error"
            /\ resp[s].content = <<>>
        /\ resp[s].kind = "content" =>
            /\ Len(searchCalls[s]) = 1
            /\ searchResponse[s].status = "ok"

C9_Witness ==
    \E s \in Sessions :
        /\ phase[s] = "done"
        /\ PassesValidation(req[s])
        /\ searchResponse[s].status = "error"
        /\ resp[s].kind = "error"
        /\ Len(searchCalls[s]) = 1

\* C10: the provider is called with the query and the depth as supplied and
\* the output type "searchResults"; a depth outside {"standard", "deep"} that is
\* not empty passes validation and is forwarded unchanged.
C10_ForwardedAsSupplied ==
    \A s \in Sessions :
        /\ \A i \in 1..Len(searchCalls[s]) :
            /\ "query" \in DOMAIN req[s].arguments
            /\ "depth" \in DOMAIN req[s].arguments
            /\ searchCalls[s][i].query = req[s].arguments["query"]
            /\ searchCalls[s][i].depth = req[s].arguments["depth"]
            /\ searchCalls[s][i].output_type = "searchResults"
        /\ ( /\ req[s].kind = "call"
             /\ req[s].name = "search-web"
             /\ req[s].hasArgs
             /\ Truthy(Get(req[s].arguments, "query"))
             /\ Truthy(Get(req[s].arguments, "depth"))
             /\ phase[s] \in {"search", "done"} ) =>
                /\ searchCalls[s] # <<>>
                /\ resp[s].kind # "error" \/ searchResponse[s].status = "error"

C10_Witness ==
    \E s \in Sessions :
        /\ req[s].kind = "call"
        /\ Get(req[s].arguments, "depth") = StrV("shallow")
        /\ searchCalls[s] = <<[query |-> StrV("q2"), depth |-> StrV("shallow"), output_type |-> "searchResults"]>>
        /\ resp[s].kind = "content"

====
